---- MODULE Spec2Model ----
(***************************************************************************)
(* Model of retrieve_netuid_data.py: the two-pass fetch orchestrator       *)
(* (main, run_batch, fetch_one) and its RateLimiter.                       *)
(*                                                                         *)
(* Durations are integers counted in ticks of 50 ms, so 0.15 s = 3,        *)
(* 0.25 s = 5, 1.5 s = 30 and 25 s = 500.  A rate (qps) is counted in      *)
(* tenths of a query per second, so 1.0 qps = 10 and 0.5 qps = 5.          *)
(***************************************************************************)
EXTENDS Integers, Sequences, FiniteSets, TLC

VARIABLES
    args,        \* the parsed command line of main(): jobs, qps, timeout, retries, backoff
    cli,         \* main(): --discover, --start, --end
    listing,     \* environment: how the listing call of --discover ends
    tool,        \* environment: is btcli in PATH ("present", or "steady" when it never
                 \* fails) or not ("missing")
    files,       \* outdir: per identifier the content of <netuid>.json
    pc,          \* main(): "pass1", "pass2" (inside run_batch) or "done"
    netuids,     \* run_batch: the list it was called with
    toSubmit,    \* run_batch: identifiers the comprehension has not submitted yet
    queue,       \* the pool's work queue (submitted, not yet started)
    fut,         \* per identifier, its future: "none", "pending", "running", "finished"
    result,      \* per identifier, the value fetch_one returned
    attempt,     \* fetch_one: the loop variable
    lastSleep,   \* fetch_one: the backoff sleep taken before this attempt (NoSleep if none)
    acquires,    \* per invocation: limiter.acquire() calls made
    calls,       \* per invocation: run_btcli_once calls made
    sleeps,      \* per invocation: backoff sleeps taken
    started,     \* per identifier: fetch_one invocations the pool started in this pass
    ok,          \* run_batch: ok
    failed_ids,  \* run_batch: failed_ids
    collected,   \* run_batch: futures as_completed has yielded
    pass1,       \* main(): (ok, failed) of pass 1, NoResult before
    pass2,       \* main(): (ok2, failed2) of pass 2, NoResult before
    missingSeen, \* identifiers whose call raised FileNotFoundError
    lateCalls,   \* identifiers called after another identifier found the tool missing
    raised,      \* identifiers whose future holds an exception that escaped fetch_one
    intr,        \* the operator's interrupt: "none", "raised" (KeyboardInterrupt is
                 \* unwinding the main thread) or "exited" (sys.exit(130) was called)
    lateStarts,  \* identifiers whose fetch_one was started after the interrupt
    now,         \* time.monotonic(), in ticks
    limiter,     \* the pass's RateLimiter: qps and _next
    thr,         \* per pool thread inside acquire(): asleep or not, and until when
    admits       \* the times at which acquire() returned, in the order it did

envVars == <<args, tool, cli, listing>>
poolVars == <<netuids, toSubmit, queue, fut, result, raised>>
workerVars == <<attempt, lastSleep, acquires, calls, sleeps, started>>
batchVars == <<ok, failed_ids, collected>>
mainVars == <<pc, pass1, pass2>>
noteVars == <<missingSeen, lateCalls>>
intVars == <<intr, lateStarts>>
limVars == <<now, limiter, thr, admits>>

vars == <<envVars, files, poolVars, workerVars, batchVars, mainVars, noteVars, intVars,
          limVars>>

(***************************************************************************)
(* Bounds of the model.                                                    *)
(***************************************************************************)
MaxEnd == 2        \* largest --end; identifiers are 1..MaxEnd
MaxRetries == 4    \* largest --retries when one identifier is fetched
NumThreads == 3    \* pool threads calling acquire() on one limiter
MaxTime == 12      \* the clock stops here
MaxAdmits == 4     \* acquire() calls that are followed
MaxNetuid == 2     \* largest integer of a listing; its integers are 0..MaxNetuid
MaxList == 2       \* longest list of a listing

NoSleep == 0 - 1
NoResult == [ok |-> -1, failed |-> <<>>]

Ids == 1..MaxEnd

(***************************************************************************)
(* Program constants.                                                      *)
(***************************************************************************)
BackoffJitterMax == 5   \* random.uniform(0.0, 0.25)
LimiterJitterMax == 3   \* acquire(jitter=0.15)
SlowRetries == 3        \* SlowArgs.retries
SlowBackoff == 30       \* SlowArgs.backoff floor 1.5
SlowTimeout == 500      \* SlowArgs.timeout floor 25.0
SlowJobs == 2           \* SlowArgs.jobs
SlowQps == 10           \* SlowArgs.qps 1.0

Max(a, b) == IF a >= b THEN a ELSE b

RECURSIVE Pow2(_)
Pow2(k) == IF k <= 0 THEN 1 ELSE 2 * Pow2(k - 1)

RECURSIVE Range(_, _)
\* list(range(start, end + 1))
Range(start, end) == IF start > end THEN <<>> ELSE <<start>> \o Range(start + 1, end)

SeqSet(s) == {s[i] : i \in 1..Len(s)}

(***************************************************************************)
(* Payloads and is_empty_payload.                                          *)
(***************************************************************************)
NoFile == "<absent>"
Partial == "{\"netu"
GoodPayload == "{\"netuid\": 1}"
OldPayload == "{\"netuid\": 0}"
Payloads == {"", "   ", "null", "[]", "{}", "0", "[1]", "not json", GoodPayload}

\* json.loads(s): "error" for JSONDecodeError, else the kind of value parsed
JsonLoads(s) ==
    CASE s = "null" -> "None"
      [] s = "[]" -> "emptylist"
      [] s = "{}" -> "emptydict"
      [] s = "0" -> "int"
      [] s = "[1]" -> "list"
      [] s = GoodPayload -> "dict"
      [] s = OldPayload -> "dict"
      [] OTHER -> "error"

is_empty_payload(s) ==
    IF s = "" \/ s = "   " THEN TRUE
    ELSE LET data == JsonLoads(s) IN
         IF data = "error" THEN FALSE
         ELSE data \in {"None", "emptylist", "emptydict"}

(***************************************************************************)
(* run_btcli_once outcomes: what the call raised, or the CompletedProcess. *)
(***************************************************************************)
\* what btcli prints for an identifier: its document, or one of the empty answers
SourcePayloads == {"", "   ", "null", "[]", "{}", GoodPayload}

Outcomes ==
    [exc : {"TimeoutExpired", "FileNotFoundError", "Exception"}, rc : {0}, out : {""}]
    \cup [exc : {"none"}, rc : {1}, out : {""}]
    \cup [exc : {"none"}, rc : {0}, out : SourcePayloads]

\* line 80: proc and proc.returncode == 0 and not is_empty_payload(proc.stdout)
Usable(o) == o.exc = "none" /\ o.rc = 0 /\ ~is_empty_payload(o.out)

\* a fetch_one that gives up at the first failure of any class
ClassifyFatal(o) == IF Usable(o) THEN "usable" ELSE "missing"

\* lines 68-80: what fetch_one makes of an outcome
Classify(o) ==
    IF o.exc = "FileNotFoundError" THEN "missing"
    ELSE IF Usable(o) THEN "usable"
    ELSE "retry"

\* what the environment lets a call do now; a "steady" source answers every call
\* with the identifier's document
CallOutcomes ==
    IF tool = "missing" THEN {o \in Outcomes : o.exc = "FileNotFoundError"}
    ELSE IF tool = "steady"
    THEN {o \in Outcomes : o.exc = "none" /\ o.rc = 0 /\ o.out = GoodPayload}
    ELSE {o \in Outcomes : o.exc # "FileNotFoundError"}

(***************************************************************************)
(* The listing of --discover.  A JSON value is a record: kind, the number  *)
(* of an "int" (of a "bool", 0 or 1), and for a container its items in     *)
(* order, with the keys of a "dict".  "blank" is stdout empty or blank,    *)
(* "notjson" is text json.loads rejects.                                   *)
(***************************************************************************)
Atom(k, i) == [kind |-> k, n |-> i, keys |-> <<>>, items |-> <<>>]
JInt(i) == Atom("int", i)
JBool(b) == Atom("bool", IF b THEN 1 ELSE 0)
JStr == Atom("str", 0)
JNull == Atom("null", 0)
Blank == Atom("blank", 0)
NotJson == Atom("notjson", 0)
JList(vs) == [kind |-> "list", n |-> 0, keys |-> <<>>, items |-> vs]
JDict(ks, vs) == [kind |-> "dict", n |-> 0, keys |-> ks, items |-> vs]

ListsOf(S) == UNION {[1..k -> S] : k \in 0..MaxList}

Numbers == 0..MaxNetuid

\* an object with the identifier field alone
PlainObjects == {JDict(<<"netuid">>, <<JInt(i)>>) : i \in Numbers}

\* objects of a listing: with the identifier field, alone or beside another
\* integer or a boolean; with a string for identifier; without identifier
Objects ==
    PlainObjects
    \cup {JDict(<<"netuid", "tempo">>, <<JInt(i), JInt(j)>>) : i \in Numbers, j \in Numbers}
    \cup {JDict(<<"netuid", "active">>, <<JInt(i), JBool(TRUE)>>) : i \in Numbers}
    \cup {JDict(<<"netuid">>, <<JStr>>), JDict(<<"name">>, <<JStr>>)}

\* what the listing call can print
Docs ==
    {Blank, NotJson, JNull, JStr, JBool(TRUE)}
    \cup {JInt(i) : i \in Numbers}
    \cup {JList(l) : l \in ListsOf(Objects)}
    \cup {JList(l) : l \in ListsOf({JInt(i) : i \in Numbers})}
    \cup {JDict(<<"subnets">>, <<JList(l)>>) : l \in ListsOf(Objects)}
    \cup {JDict(<<>>, <<>>)}

\* lines 113-119: how subprocess.run of the listing ends
Listings ==
    [exc : {"TimeoutExpired", "FileNotFoundError"}, rc : {0}, doc : {Blank}]
    \cup [exc : {"none"}, rc : {1}, doc : {Blank}]
    \cup [exc : {"none"}, rc : {0}, doc : Docs]

\* is_empty_payload, lines 18-30, of the text of a document
is_empty_doc(d) ==
    IF d.kind = "blank" THEN TRUE
    ELSE IF d.kind = "notjson" THEN FALSE
    ELSE d.kind = "null" \/ (d.kind \in {"list", "dict"} /\ Len(d.items) = 0)

\* isinstance(obj, int): bool is a subclass of int
IsInt(v) == v.kind \in {"int", "bool"}

\* a harvest that does not look into the values of an object
RECURSIVE harvestShallow(_)
harvestShallow(obj) ==
    IF obj.kind = "dict"
    THEN {obj.items[i].n : i \in {j \in 1..Len(obj.keys) :
                                    obj.keys[j] = "netuid" /\ IsInt(obj.items[j])}}
    ELSE IF obj.kind = "list"
    THEN UNION {harvestShallow(obj.items[i]) : i \in 1..Len(obj.items)}
    ELSE IF IsInt(obj) THEN {obj.n}
    ELSE {}

\* lines 129-139: the candidates harvest(obj) adds
RECURSIVE harvest(_)
harvest(obj) ==
    IF obj.kind = "dict"
    THEN {obj.items[i].n : i \in {j \in 1..Len(obj.keys) :
                                    obj.keys[j] = "netuid" /\ IsInt(obj.items[j])}}
         \cup UNION {harvest(obj.items[i]) : i \in 1..Len(obj.items)}
    ELSE IF obj.kind = "list"
    THEN UNION {harvest(obj.items[i]) : i \in 1..Len(obj.items)}
    ELSE IF IsInt(obj) THEN {obj.n}
    ELSE {}

\* sorted(candidates)
RECURSIVE sorted(_)
sorted(S) ==
    IF S = {} THEN <<>>
    ELSE LET m == CHOOSE x \in S : \A y \in S : x <= y
         IN  <<m>> \o sorted(S \ {m})

None == [some |-> FALSE, list |-> <<>>]
Some(l) == [some |-> TRUE, list |-> l]

\* lines 112-144
maybe_discover_netuids(l) ==
    IF l.exc # "none" THEN None
    ELSE IF l.rc # 0 \/ is_empty_doc(l.doc) THEN None
    ELSE IF l.doc.kind = "notjson" THEN None
    ELSE LET candidates == harvest(l.doc)
         IN  IF candidates # {} THEN Some(sorted(candidates)) ELSE None

\* lines 188-197: the target list of main()
Target(c, l) ==
    IF c.discover
    THEN LET discovered == maybe_discover_netuids(l)
         IN  IF discovered.some /\ discovered.list # <<>>
             THEN discovered.list
             ELSE Range(c.start, c.end)
    ELSE Range(c.start, c.end)

\* the run has no --discover: the listing is not called
NoDiscovery(end) ==
    /\ cli = [discover |-> FALSE, start |-> 1, end |-> end]
    /\ listing = [exc |-> "none", rc |-> 1, doc |-> Blank]

(***************************************************************************)
(* main(): the slow lane's settings.                                       *)
(***************************************************************************)
SlowArgs(a) ==
    [jobs |-> SlowJobs, qps |-> SlowQps, retries |-> SlowRetries,
     backoff |-> Max(a.backoff, SlowBackoff), timeout |-> Max(a.timeout, SlowTimeout)]

\* the args run_batch is running with
CurArgs == IF pc = "pass2" THEN SlowArgs(args) ELSE args

\* the backoff without its exponential factor
BackoffSleepFlat(base, att, jit) == base + jit

\* line 101: backoff_base * (2 ** (attempt - 1)) + random.uniform(0.0, 0.25)
BackoffSleep(base, att, jit) == base * Pow2(att - 1) + jit

\* the values drawn for random.uniform(0.0, 0.25): both ends of the interval
BackoffJitters == {0, BackoffJitterMax}

\* line 82, outfile.write_text(data) raising: open() failed (file untouched), or the
\* file was opened for writing (truncated) and the write stopped at some point;
\* Partial stands for every strict prefix of the payload, the empty one included
FailedWrite(old) == {old, Partial}

\* line 82, every way outfile.write_text(data) can end: (file content, raised)
WriteResults(old, data) ==
    {<<data, FALSE>>} \cup {<<f, TRUE>> : f \in FailedWrite(old)}

(***************************************************************************)
(* Initial states: main() has parsed its arguments and enters run_batch    *)
(* for pass 1.                                                             *)
(***************************************************************************)
\* several identifiers (--start 1 --end MaxEnd), few settings
BatchArgs ==
    [jobs : {1, 2}, qps : {30}, timeout : {400}, retries : {1, 2}, backoff : {2}]

\* one identifier (--start 1 --end 1), many settings: --jobs 1, 2, 6; --qps 0 (no
\* limit), 0.5, 1.0, 3.0; --timeout 20, 30; --backoff 0, 0.1, 0.25, 1.0, 2.0
FetchArgs ==
    [jobs : {1, 2, 6}, qps : {0, 5, 10, 30}, timeout : {400, 600},
     retries : 1..MaxRetries, backoff : {0, 2, 5, 20, 40}]

\* run_batch, lines 147-151, called with ids
EnterBatch(ids) ==
    /\ netuids' = ids
    /\ toSubmit' = ids
    /\ queue' = <<>>
    /\ fut' = [n \in Ids |-> "none"]
    /\ result' = [n \in Ids |-> FALSE]
    /\ raised' = {}
    /\ attempt' = [n \in Ids |-> 0]
    /\ lastSleep' = [n \in Ids |-> NoSleep]
    /\ acquires' = [n \in Ids |-> 0]
    /\ calls' = [n \in Ids |-> 0]
    /\ sleeps' = [n \in Ids |-> 0]
    /\ started' = [n \in Ids |-> 0]
    /\ ok' = 0
    /\ failed_ids' = <<>>
    /\ collected' = {}

InitBatch(ids) ==
    /\ netuids = ids
    /\ toSubmit = ids
    /\ queue = <<>>
    /\ fut = [n \in Ids |-> "none"]
    /\ result = [n \in Ids |-> FALSE]
    /\ raised = {}
    /\ attempt = [n \in Ids |-> 0]
    /\ lastSleep = [n \in Ids |-> NoSleep]
    /\ acquires = [n \in Ids |-> 0]
    /\ calls = [n \in Ids |-> 0]
    /\ sleeps = [n \in Ids |-> 0]
    /\ started = [n \in Ids |-> 0]
    /\ ok = 0
    /\ failed_ids = <<>>
    /\ collected = {}

\* no limiter is followed
LimiterIdle ==
    /\ now = 0
    /\ limiter = [qps |-> 0, next |-> 0]
    /\ thr = [t \in 1..NumThreads |-> [asleep |-> FALSE, wake |-> 0]]
    /\ admits = <<>>

InitMain ==
    /\ tool \in {"present", "missing"}
    /\ pc = "pass1"
    /\ pass1 = NoResult
    /\ pass2 = NoResult
    /\ missingSeen = {}
    /\ lateCalls = {}
    /\ intr = "none"
    /\ lateStarts = {}

Init ==
    /\ LimiterIdle
    /\ args \in BatchArgs
    /\ files = [n \in Ids |-> NoFile]
    /\ InitMain
    /\ NoDiscovery(MaxEnd)
    /\ InitBatch(Range(1, MaxEnd))

(***************************************************************************)
(* run_batch, lines 153-159: the comprehension submits one future per      *)
(* element of netuids; the pool starts them in submission order, at most   *)
(* max_workers at a time.                                                  *)
(***************************************************************************)
Running == {n \in Ids : fut[n] = "running"}

Submit ==
    /\ pc \in {"pass1", "pass2"}
    /\ intr = "none"
    /\ toSubmit # <<>>
    /\ toSubmit' = Tail(toSubmit)
    /\ queue' = Append(queue, Head(toSubmit))
    /\ fut' = [fut EXCEPT ![Head(toSubmit)] = "pending"]
    /\ UNCHANGED <<limVars, envVars, intVars, files, netuids, result, raised, workerVars,
                   batchVars, mainVars,
                   noteVars>>

\* a pool that keeps one of its threads back
MayStartOneShort(jobs) == Cardinality(Running) < jobs - 1

\* a pool that starts work without counting its threads
MayStartAlways(jobs) == TRUE

\* a pool thread is free to take the head of the queue
MayStart(jobs) == Cardinality(Running) < jobs

\* a pool thread takes the head of the queue and enters fetch_one
Start ==
    /\ queue # <<>>
    /\ MayStart(CurArgs.jobs)
    /\ LET n == Head(queue) IN
        /\ queue' = Tail(queue)
        /\ fut' = [fut EXCEPT ![n] = "running"]
        /\ attempt' = [attempt EXCEPT ![n] = 1]
        /\ started' = [started EXCEPT ![n] = @ + 1]
        /\ lateStarts' = IF intr = "raised" THEN lateStarts \cup {n} ELSE lateStarts
    /\ UNCHANGED <<limVars, envVars, intr, files, netuids, toSubmit, result, raised,
                   lastSleep, acquires,
                   calls, sleeps, batchVars, mainVars, noteVars>>

(***************************************************************************)
(* fetch_one.                                                              *)
(***************************************************************************)
\* the loop running one turn too many
MoreAttemptsOffByOne(att, retries) == att <= retries

\* line 63: for attempt in range(1, retries + 1) has a next value
MoreAttempts(att, retries) == att < retries

\* line 64: the limiter.acquire() calls made once this attempt has made its own
\* (the timing of acquire is the subject of SpecLimiter)
Acquired(n) == acquires[n] + 1

\* fetch_one returns r
Return(n, r) ==
    /\ fut' = [fut EXCEPT ![n] = "finished"]
    /\ result' = [result EXCEPT ![n] = r]
    /\ lastSleep' = [lastSleep EXCEPT ![n] = NoSleep]
    /\ UNCHANGED <<attempt, sleeps>>

\* lines 99-102: sleep before the next attempt, or line 104: give up
Retry(n) ==
    IF MoreAttempts(attempt[n], CurArgs.retries)
    THEN \E jit \in BackoffJitters :
            /\ lastSleep' = [lastSleep EXCEPT
                                ![n] = BackoffSleep(CurArgs.backoff, attempt[n], jit)]
            /\ sleeps' = [sleeps EXCEPT ![n] = @ + 1]
            /\ attempt' = [attempt EXCEPT ![n] = @ + 1]
            /\ UNCHANGED <<fut, result>>
    ELSE Return(n, FALSE)

\* lines 73-75: what fetch_one does when the tool is missing
ToolMissing(n) == Return(n, FALSE)

\* lines 64-104, one turn of the loop: acquire, the external call, its
\* classification, the write, the backoff
Attempt(n) ==
    /\ fut[n] = "running"
    /\ acquires' = [acquires EXCEPT ![n] = Acquired(n)]
    /\ calls' = [calls EXCEPT ![n] = @ + 1]
    /\ lateCalls' = IF missingSeen \ {n} # {} THEN lateCalls \cup {n} ELSE lateCalls
    /\ \E c \in {<<Classify(o), IF Usable(o) THEN o.out ELSE "">> : o \in CallOutcomes} :
        IF c[1] = "missing"
        THEN /\ missingSeen' = missingSeen \cup {n}
             /\ ToolMissing(n)
             /\ UNCHANGED files
        ELSE /\ UNCHANGED missingSeen
             /\ IF c[1] = "usable"
                THEN \E w \in WriteResults(files[n], c[2]) :
                        /\ files' = [files EXCEPT ![n] = w[1]]
                        /\ IF w[2] THEN Retry(n) ELSE Return(n, TRUE)
                ELSE /\ UNCHANGED files
                     /\ Retry(n)
    /\ UNCHANGED <<limVars, envVars, intVars, netuids, toSubmit, queue, raised, started,
                   batchVars, mainVars>>

(***************************************************************************)
(* run_batch, lines 160-171: as_completed yields the finished futures in   *)
(* completion order, once every future has been submitted.  The worker's   *)
(* frame is gone by then: its counters are cleared.                        *)
(***************************************************************************)
\* a tally that counts successes and forgets who failed
TallyLosesFailure(r, n, okc, failed) ==
    IF r THEN <<okc + 1, failed>> ELSE <<okc, failed>>

\* the tally with its two branches exchanged
TallyInverted(r, n, okc, failed) ==
    IF r THEN <<okc, Append(failed, n)>> ELSE <<okc + 1, failed>>

\* lines 163-166: (ok, failed_ids) after the future of n gave r
Tally(r, n, okc, failed) ==
    IF r THEN <<okc + 1, failed>> ELSE <<okc, Append(failed, n)>>

\* the loop losing the identifier of a future that holds an exception
ReduceDropsFault(n, okc, failed) ==
    IF n \in raised THEN <<okc, failed>>
    ELSE Tally(result[n], n, okc, failed)

\* lines 162-169: fut.result() gives the value fetch_one returned, or raises
\* what escaped it
Reduce(n, okc, failed) ==
    IF n \in raised THEN <<okc, Append(failed, n)>>
    ELSE Tally(result[n], n, okc, failed)

Collect(n) ==
    /\ intr = "none"
    /\ toSubmit = <<>>
    /\ fut[n] = "finished"
    /\ n \notin collected
    /\ collected' = collected \cup {n}
    /\ ok' = Reduce(n, ok, failed_ids)[1]
    /\ failed_ids' = Reduce(n, ok, failed_ids)[2]
    /\ attempt' = [attempt EXCEPT ![n] = 0]
    /\ acquires' = [acquires EXCEPT ![n] = 0]
    /\ calls' = [calls EXCEPT ![n] = 0]
    /\ sleeps' = [sleeps EXCEPT ![n] = 0]
    /\ UNCHANGED <<limVars, envVars, intVars, files, poolVars, lastSleep, started,
                   mainVars, noteVars>>

\* a pass that returns without waiting for its futures
BatchOverUnjoined == intr = "none" /\ toSubmit = <<>> /\ collected # {}

\* the as_completed loop has yielded every future and the with block is left
BatchOver == intr = "none" /\ toSubmit = <<>> /\ collected = SeqSet(netuids)

(***************************************************************************)
(* main(), lines 204-216.                                                  *)
(***************************************************************************)
\* the test of line 208 negated
NeedsPass2Inverted(failed) == failed = <<>>

\* line 208: if failed
NeedsPass2(failed) == failed # <<>>

\* pass 1 returned with no failure: main() ends
Pass1Clean ==
    /\ pc = "pass1"
    /\ BatchOver
    /\ ~NeedsPass2(failed_ids)
    /\ pass1' = [ok |-> ok, failed |-> failed_ids]
    /\ pc' = "done"
    /\ UNCHANGED <<limVars, envVars, intVars, files, poolVars, workerVars, batchVars,
                   pass2, noteVars>>

\* pass 1 returned with failures: main() calls run_batch(failed, SlowArgs)
Pass1Failed ==
    /\ pc = "pass1"
    /\ BatchOver
    /\ NeedsPass2(failed_ids)
    /\ pass1' = [ok |-> ok, failed |-> failed_ids]
    /\ pc' = "pass2"
    /\ EnterBatch(failed_ids)
    /\ UNCHANGED <<limVars, envVars, intVars, files, pass2, noteVars>>

\* a main() that goes round again while identifiers fail
Pass2Repeats ==
    /\ pc = "pass2"
    /\ BatchOver
    /\ pass2' = [ok |-> ok, failed |-> failed_ids]
    /\ pc' = IF NeedsPass2(failed_ids) THEN "pass2" ELSE "done"
    /\ EnterBatch(failed_ids)
    /\ UNCHANGED <<limVars, envVars, intVars, files, pass1, noteVars>>

\* pass 2 returned: main() reports and ends
Pass2Over ==
    /\ pc = "pass2"
    /\ BatchOver
    /\ pass2' = [ok |-> ok, failed |-> failed_ids]
    /\ pc' = "done"
    /\ UNCHANGED <<limVars, envVars, intVars, files, poolVars, workerVars, batchVars,
                   pass1, noteVars>>

Next ==
    \/ Submit
    \/ Start
    \/ \E n \in Ids : Attempt(n)
    \/ \E n \in Ids : Collect(n)
    \/ Pass1Clean
    \/ Pass1Failed
    \/ Pass2Over

Spec == Init /\ [][Next]_vars

\* the same program, with --retries 2, under fair scheduling: while the main thread
\* or a pool thread can take a step, one of them eventually does; a call of the
\* tool ends (subprocess.run returns, or raises TimeoutExpired after timeout
\* seconds) and a sleep ends, so an attempt in progress is a step that can be
\* taken.  This asks less of the scheduler than fairness to each thread.
InitFair == Init /\ args.retries = 2

Fairness == WF_vars(Next)

SpecFair == InitFair /\ [][Next]_vars /\ Fairness

\* the same program fetching the single identifier 1, under every setting of
\* FetchArgs, into a directory that may hold 1.json from an earlier run
InitFetch ==
    /\ LimiterIdle
    /\ args \in FetchArgs
    /\ files \in [Ids -> {NoFile, OldPayload}]
    /\ \A n \in Ids \ {1} : files[n] = NoFile
    /\ InitMain
    /\ NoDiscovery(1)
    /\ InitBatch(Range(1, 1))

SpecFetch == InitFetch /\ [][Next]_vars

\* the program run again after a run that fetched every identifier, against a
\* source that answers every call with the same document
InitRerun ==
    /\ LimiterIdle
    /\ args \in BatchArgs
    /\ files = [n \in Ids |-> GoodPayload]
    /\ tool = "steady"
    /\ NoDiscovery(MaxEnd)
    /\ pc = "pass1"
    /\ pass1 = NoResult
    /\ pass2 = NoResult
    /\ missingSeen = {}
    /\ lateCalls = {}
    /\ intr = "none"
    /\ lateStarts = {}
    /\ InitBatch(Range(1, MaxEnd))

SpecRerun == InitRerun /\ [][Next]_vars

(***************************************************************************)
(* A worker whose fetch_one lets an exception escape: log() of line 66     *)
(* raises (print fails on a closed or non-UTF-8 stream) after acquire(),   *)
(* outside every try block.  The future ends holding the exception.        *)
(***************************************************************************)
Fault(n) ==
    /\ fut[n] = "running"
    /\ acquires' = [acquires EXCEPT ![n] = Acquired(n)]
    /\ fut' = [fut EXCEPT ![n] = "finished"]
    /\ raised' = raised \cup {n}
    /\ lastSleep' = [lastSleep EXCEPT ![n] = NoSleep]
    /\ UNCHANGED <<limVars, envVars, intVars, files, netuids, toSubmit, queue, result,
                   attempt, calls, sleeps, started, batchVars, mainVars, noteVars>>

NextFault ==
    \/ Next
    \/ \E n \in Ids : Fault(n)

SpecFault == Init /\ [][NextFault]_vars

(***************************************************************************)
(* The operator's interrupt, lines 218-223.  KeyboardInterrupt is raised   *)
(* in the main thread while it is inside run_batch's with block (in the    *)
(* comprehension or in as_completed).  The block is left through           *)
(* ThreadPoolExecutor.__exit__, that is shutdown(wait=True): nothing more  *)
(* is submitted or collected, the pool's threads go on taking what is      *)
(* queued, and the main thread joins them before the exception reaches     *)
(* line 221.                                                               *)
(***************************************************************************)
InterruptStatus == 130   \* sys.exit(130)
NoStatus == 0 - 1

\* the exit status of the process, NoStatus while it runs
ExitStatus ==
    IF intr = "exited" THEN InterruptStatus
    ELSE IF pc = "done" THEN 0
    ELSE NoStatus

Interrupt ==
    /\ pc \in {"pass1", "pass2"}
    /\ intr = "none"
    /\ intr' = "raised"
    /\ UNCHANGED <<limVars, envVars, lateStarts, files, poolVars, workerVars, batchVars,
                   mainVars, noteVars>>

\* the pool's threads have been joined; lines 221-223
Exit130 ==
    /\ intr = "raised"
    /\ queue = <<>>
    /\ Running = {}
    /\ intr' = "exited"
    /\ UNCHANGED <<limVars, envVars, lateStarts, files, poolVars, workerVars, batchVars,
                   mainVars, noteVars>>

NextInterrupt ==
    \/ Next
    \/ Interrupt
    \/ Exit130

SpecInterrupt == Init /\ [][NextInterrupt]_vars

(***************************************************************************)
(* main(), lines 187-197: the target list is resolved, from the range or   *)
(* from the listing, before pass 1 is entered (without --shuffle).         *)
(***************************************************************************)
Clis == [discover : BOOLEAN, start : {1, 2}, end : 1..MaxEnd]

InitDiscover ==
    /\ LimiterIdle
    /\ args = [jobs |-> 6, qps |-> 30, timeout |-> 400, retries |-> 3, backoff |-> 20]
    /\ files = [n \in Ids |-> NoFile]
    /\ tool = "present"
    /\ cli \in Clis
    /\ listing \in Listings
    /\ (~cli.discover) => listing = [exc |-> "none", rc |-> 1, doc |-> Blank]
    /\ pc = "resolve"
    /\ pass1 = NoResult
    /\ pass2 = NoResult
    /\ missingSeen = {}
    /\ lateCalls = {}
    /\ intr = "none"
    /\ lateStarts = {}
    /\ InitBatch(<<>>)

Resolve ==
    /\ pc = "resolve"
    /\ netuids' = Target(cli, listing)
    /\ toSubmit' = Target(cli, listing)
    /\ pc' = "pass1"
    /\ UNCHANGED <<limVars, envVars, intVars, files, queue, fut, result, raised,
                   workerVars, batchVars, pass1, pass2, noteVars>>

NextDiscover == Resolve

SpecDiscover == InitDiscover /\ [][NextDiscover]_vars

TypeOK ==
    /\ pc \in {"resolve", "pass1", "pass2", "done"}
    /\ intr \in {"none", "raised", "exited"}
    /\ raised \subseteq Ids
    /\ lateStarts \subseteq Ids
    /\ \A n \in Ids : fut[n] \in {"none", "pending", "running", "finished"}

(***************************************************************************)
(* RateLimiter: the pool's threads call acquire() on the limiter of one    *)
(* pass, each as often and whenever it likes.  A sleep ends exactly when   *)
(* it is due: the clock does not pass a sleeper's wake-up time.            *)
(***************************************************************************)
Threads == 1..NumThreads

\* line 54: 1.0 / self.qps, in ticks (20 ticks a second, qps in tenths)
Period(qps) == 200 \div qps

\* line 53: wait = max(0.0, self._next - now)
Wait(next, t) == Max(0, next - t)

\* a reservation that starts from the clock and forgets the cursor
SlotFromNow(next, t, qps) == t + Period(qps)

\* line 54: slot = (self._next if now < self._next else now) + 1.0 / self.qps
Slot(next, t, qps) == (IF t < next THEN next ELSE t) + Period(qps)

\* lines 43-46: RateLimiter(qps), at some positive time of the monotonic clock,
\* for 0 (no limit), 5 and 10 queries per second
InitLimiter ==
    /\ now = 1
    /\ limiter \in [qps : {0, 50, 100}, next : {0}]
    /\ thr = [t \in Threads |-> [asleep |-> FALSE, wake |-> 0]]
    /\ admits = <<>>
    /\ args = [jobs |-> NumThreads, qps |-> limiter.qps, timeout |-> 400,
               retries |-> 1, backoff |-> 0]
    /\ tool = "present"
    /\ NoDiscovery(0)
    /\ files = [n \in Ids |-> NoFile]
    /\ pc = "pass1"
    /\ pass1 = NoResult
    /\ pass2 = NoResult
    /\ missingSeen = {}
    /\ lateCalls = {}
    /\ intr = "none"
    /\ lateStarts = {}
    /\ InitBatch(<<>>)

\* lines 48-57 up to the sleep: the test of qps, the reservation under the lock,
\* and the jitter drawn for the sleep; acquire() returns at once when wait is 0
LimAcquire(t) ==
    /\ ~thr[t].asleep
    /\ Len(admits) + Cardinality({u \in Threads : thr[u].asleep}) < MaxAdmits
    /\ IF limiter.qps <= 0
       THEN /\ admits' = Append(admits, now)
            /\ UNCHANGED <<limiter, thr>>
       ELSE LET wait == Wait(limiter.next, now)
                slot == Slot(limiter.next, now, limiter.qps)
            IN  /\ limiter' = [limiter EXCEPT !.next = slot]
                /\ IF wait > 0
                   THEN /\ \E jit \in 0..LimiterJitterMax :
                              thr' = [thr EXCEPT ![t] = [asleep |-> TRUE,
                                                         wake |-> now + wait + jit]]
                        /\ UNCHANGED admits
                   ELSE /\ admits' = Append(admits, now)
                        /\ UNCHANGED thr
    /\ UNCHANGED <<now, envVars, intVars, files, poolVars, workerVars, batchVars, mainVars,
                   noteVars>>

\* line 57: time.sleep is over, acquire() returns
LimWake(t) ==
    /\ thr[t].asleep
    /\ thr[t].wake = now
    /\ thr' = [thr EXCEPT ![t] = [asleep |-> FALSE, wake |-> 0]]
    /\ admits' = Append(admits, now)
    /\ UNCHANGED <<now, limiter, envVars, intVars, files, poolVars, workerVars, batchVars,
                   mainVars, noteVars>>

\* the monotonic clock advances
Tick ==
    /\ now < MaxTime
    /\ \A t \in Threads : thr[t].asleep => thr[t].wake > now
    /\ now' = now + 1
    /\ UNCHANGED <<limiter, thr, admits, envVars, intVars, files, poolVars, workerVars,
                   batchVars, mainVars, noteVars>>

NextLimiter ==
    \/ \E t \in Threads : LimAcquire(t)
    \/ \E t \in Threads : LimWake(t)
    \/ Tick

SpecLimiter == InitLimiter /\ [][NextLimiter]_vars

(***************************************************************************)
(* Properties.                                                             *)
(***************************************************************************)
\* C1: with a rate r > 0, two calls admitted one after the other start at least
\* 1/r apart, however many threads call acquire().
C1_AdmissionsSpaced ==
    limiter.qps > 0 =>
        \A i \in 1..Len(admits) : \A j \in 1..Len(admits) :
            i < j => admits[j] - admits[i] >= Period(limiter.qps)

Finished(n) == fut[n] = "finished" /\ n \notin collected
Returns(n) == fut[n] = "running" /\ fut'[n] = "finished"
\* the payloads fetch_one saves
FullPayloads == {p \in Payloads : ~is_empty_payload(p)}
Saved == {n \in Ids : files[n] \in FullPayloads}

\* C2: once a call has found the external tool missing the run is aborted: no
\* other identifier is called afterwards, and the identifier that found it
\* missing is not fetched again in pass 2.
C2_MissingToolAbortsRun ==
    /\ lateCalls = {}
    /\ \A n \in missingSeen : ~(pc = "pass2" /\ n \in SeqSet(netuids))

\* C3: against a source that only fails retryably, fetch_one makes exactly
\* `retries` calls, each after one acquire, then returns False: never fewer,
\* never one more.
C3_ExactlyKAttempts ==
    \A n \in Ids :
        /\ calls[n] <= CurArgs.retries
        /\ acquires[n] = calls[n]
        /\ (Finished(n) /\ ~result[n] /\ tool = "present")
               => calls[n] = CurArgs.retries

C3_Witness ==
    \E n \in Ids :
        /\ Finished(n) /\ ~result[n] /\ tool = "present"
        /\ pc = "pass1" /\ args.retries = MaxRetries /\ calls[n] = MaxRetries

\* C4 as claimed: each backoff sleep of an invocation is at least as long as the
\* one before it, whatever the base and the jitter.
C4_SleepsNeverShrink ==
    [][\A n \in Ids :
          (sleeps'[n] = sleeps[n] + 1 /\ lastSleep[n] # NoSleep)
              => lastSleep'[n] >= lastSleep[n]]_vars

\* C4 as amended: the sleep after attempt i is the base doubled i-1 times plus a
\* jitter of at most 0.25 s; the sleeps of an invocation never shrink when the
\* base is at least 0.25 s; and an invocation that gives up sleeps once less than
\* it calls (no sleep after the last attempt).
C4_SleepsNeverShrinkFromQuarterSecond ==
    [][\A n \in Ids :
          /\ sleeps'[n] = sleeps[n] + 1 =>
                /\ lastSleep'[n] >= CurArgs.backoff * Pow2(attempt[n] - 1)
                /\ lastSleep'[n] <= CurArgs.backoff * Pow2(attempt[n] - 1) + BackoffJitterMax
                /\ (CurArgs.backoff >= BackoffJitterMax /\ lastSleep[n] # NoSleep)
                       => lastSleep'[n] >= lastSleep[n]
          /\ (Returns(n) /\ ~result'[n] /\ tool = "present")
                => (sleeps'[n] = sleeps[n] /\ sleeps'[n] = calls'[n] - 1)]_vars

C4_Witness ==
    \E n \in Ids :
        /\ sleeps[n] >= 2
        /\ lastSleep[n] # NoSleep
        /\ pc = "pass1"
        /\ args.backoff = BackoffJitterMax

\* C5: an identifier whose calls fail m < retries times and then succeed is
\* called m + 1 times and no more, its file holds the payload, and pass 1 counts
\* it as a success and hands it to no failed list and to no second pass.
C5_SuccessAfterFailuresCounts ==
    [][\A n \in Ids :
          /\ (Returns(n) /\ result'[n]) =>
                /\ calls'[n] = sleeps'[n] + 1
                /\ calls'[n] <= CurArgs.retries
                /\ files'[n] \in FullPayloads
          /\ (fut[n] = "finished" /\ result[n] /\ pc' = pc) =>
                /\ fut'[n] = "finished" /\ result'[n]
                /\ n \notin SeqSet(failed_ids')
                /\ (n \in collected' \ collected => ok' = ok + 1)
          /\ (fut[n] = "finished" /\ result[n] /\ pc = "pass1" /\ pc' # "pass1") =>
                /\ n \notin SeqSet(pass1'.failed)
                /\ pass1'.ok = Cardinality({k \in Ids : fut[k] = "finished" /\ result[k]})
                /\ (pc' = "pass2" => n \notin SeqSet(netuids'))]_vars

\* every identifier has been fetched, identifier 2 at its second call
C5_Witness ==
    /\ pc = "pass1" /\ args.retries = 2
    /\ \A n \in SeqSet(netuids) : Finished(n) /\ result[n]
    /\ calls[1] = 1 /\ calls[2] = 2

\* C6: when the run ends, the identifiers still failing are exactly those that no
\* attempt fetched; pass 1 counted the others that it fetched, pass 2 was run over
\* the failures of pass 1 only, and an identifier that always fails is in both
\* failed lists.
C6_TwoPassRecovery ==
    pc = "done" =>
        IF pass2 = NoResult
        THEN /\ pass1.failed = <<>>
             /\ pass1.ok = MaxEnd
             /\ Saved = Ids
        ELSE /\ SeqSet(pass2.failed) = Ids \ Saved
             /\ SeqSet(pass2.failed) \subseteq SeqSet(pass1.failed)
             /\ pass1.ok = MaxEnd - Len(pass1.failed)
             /\ pass1.ok = Cardinality(Ids \ SeqSet(pass1.failed))
             /\ pass2.ok + Len(pass2.failed) = Len(pass1.failed)
             /\ pass1.ok + pass2.ok = Cardinality(Saved)

C6_Witness ==
    /\ pc = "done"
    /\ tool = "present"
    /\ pass1.ok >= 1
    /\ pass2 # NoResult
    /\ pass2.ok = 0
    /\ pass2.failed # <<>>
    /\ SeqSet(pass2.failed) = SeqSet(pass1.failed)

\* C7: a file of the output directory is only ever absent, as an earlier run left
\* it, or the full payload: no write leaves it truncated or part written.
C7_WritesAreAtomic ==
    \A n \in Ids : files[n] \in {NoFile, OldPayload} \cup FullPayloads

\* C8: pass 2 retries at least as often, backs off at least as long and waits at
\* least as long for a call as pass 1.
C8_Pass2AtLeastAsGenerous ==
    pc = "pass2" =>
        /\ CurArgs.retries >= args.retries
        /\ CurArgs.backoff >= args.backoff
        /\ CurArgs.timeout >= args.timeout

\* C9: pass 2 runs no more workers than pass 1 and admits calls at no higher a
\* rate than pass 1 (a rate <= 0 is no limit at all).
C9_Pass2MoreConservative ==
    pc = "pass2" =>
        /\ CurArgs.jobs <= args.jobs
        /\ CurArgs.qps > 0
        /\ (args.qps <= 0 \/ CurArgs.qps <= args.qps)

\* C10: never more fetch_one invocations active than the pass's concurrency, and
\* one invocation per identifier of the pass: none for another identifier, none
\* twice, and every one of them started by the time the pass is over.
C10_PoolBoundsActiveFetches ==
    /\ Cardinality(Running) <= CurArgs.jobs
    /\ \A n \in Ids : started[n] <= 1
    /\ \A n \in Ids : n \notin SeqSet(netuids) => started[n] = 0
    /\ \A n \in Ids : fut[n] \in {"running", "finished"} <=> started[n] = 1
    /\ Len(netuids) = Cardinality(SeqSet(netuids))
    /\ BatchOver => \A n \in SeqSet(netuids) : started[n] = 1

C10_Witness ==
    /\ Cardinality(Running) = CurArgs.jobs
    /\ queue # <<>>

\* C11: once the operator's interrupt has arrived during a pass, no fetch_one
\* that had not started by then is started, and the process exits with status
\* 130, never with the status of a normal completion.
C11_InterruptStopsDispatch ==
    /\ lateStarts = {}
    /\ intr = "exited" => ExitStatus = InterruptStatus
    /\ intr = "raised" => ExitStatus # 0

\* the times n occurs in the list s
Count(s, n) == Cardinality({i \in 1..Len(s) : s[i] = n})

\* C12: an identifier whose fetch_one let an exception escape is recorded as
\* failed, once, and the batch goes on: every collected future is counted once,
\* the other identifiers are started and counted by what they returned, and the
\* pass returns its result to main(), which retries the faulted identifier.
C12_FaultIsOneFailure ==
    /\ \A n \in raised \cap collected : Count(failed_ids, n) = 1
    /\ ok + Len(failed_ids) = Cardinality(collected)
    /\ ok = Cardinality({n \in collected \ raised : result[n]})
    /\ BatchOver =>
          \A n \in SeqSet(netuids) :
              /\ started[n] = 1
              /\ n \notin raised => (result[n] <=> n \notin SeqSet(failed_ids))
    /\ pc = "done" =>
          IF pass2 = NoResult THEN raised = {}
          ELSE /\ raised \subseteq SeqSet(pass2.failed)
               /\ pass2.ok + Len(pass2.failed) = Len(pass1.failed)

\* pass 2 is over: identifier 1 faulted in it and identifier 2 was fetched
C12_Witness ==
    /\ pc = "done"
    /\ raised = {1}
    /\ pass2.ok = 1
    /\ pass2.failed = <<1>>

\* C13: a second run over identifiers that the first run all fetched, against
\* a source that answers as it did, ends with every file holding what the first
\* run left in it: none missing, none stale, none part written.
C13_RerunLeavesSameFiles ==
    pc = "done" => \A n \in Ids : files[n] = GoodPayload

\* the listing call ended well and printed a JSON document
Listed == listing.exc = "none" /\ listing.rc = 0 /\ listing.doc.kind \notin {"blank", "notjson"}

\* an object carrying the identifier field, and its identifier
HasId(o) ==
    o.kind = "dict" /\ \E j \in 1..Len(o.keys) : o.keys[j] = "netuid" /\ o.items[j].kind = "int"
IdOf(o) == o.items[CHOOSE j \in 1..Len(o.keys) : o.keys[j] = "netuid"].n

\* the three shapes of listing: a list of objects with the identifier field, an
\* object holding such a list, a flat list of integers
ObjectList(d) ==
    d.kind = "list" /\ d.items # <<>> /\ \A i \in 1..Len(d.items) : HasId(d.items[i])
NestedList(d) == d.kind = "dict" /\ Len(d.items) = 1 /\ ObjectList(d.items[1])
FlatList(d) ==
    d.kind = "list" /\ d.items # <<>> /\ \A i \in 1..Len(d.items) : d.items[i].kind = "int"
Accepted(d) == ObjectList(d) \/ NestedList(d) \/ FlatList(d)

\* the identifiers present in a listing of one of the three shapes
IdsPresent(d) ==
    IF FlatList(d) THEN {d.items[i].n : i \in 1..Len(d.items)}
    ELSE IF ObjectList(d) THEN {IdOf(d.items[i]) : i \in 1..Len(d.items)}
    ELSE {IdOf(d.items[1].items[i]) : i \in 1..Len(d.items[1].items)}

\* every integer or boolean value at any depth of a document
RECURSIVE Ints(_)
Ints(d) ==
    IF d.kind \in {"int", "bool"} THEN {d.n}
    ELSE UNION {Ints(d.items[i]) : i \in 1..Len(d.items)}

\* the objects of a listing hold nothing but their identifier
Bare(l) == \A i \in 1..Len(l.items) : Len(l.items[i].items) = 1
OnlyIds(d) ==
    IF ObjectList(d) THEN Bare(d)
    ELSE IF NestedList(d) THEN Bare(d.items[1])
    ELSE FlatList(d)

Increasing(s) == \A i \in 1..Len(s) : \A j \in 1..Len(s) : i < j => s[i] < s[j]

\* C14 as claimed: from a listing of one of the three shapes, discovery makes the
\* target list exactly the identifiers present in it, each once, in ascending
\* order; when the call fails or no candidate is found the target is the range
\* start..end.
C14_HarvestExact ==
    (pc = "pass1" /\ cli.discover) =>
        /\ (Listed /\ Accepted(listing.doc)) =>
               /\ Increasing(netuids)
               /\ SeqSet(netuids) = IdsPresent(listing.doc)
        /\ (~Listed \/ Ints(listing.doc) = {}) => netuids = Range(cli.start, cli.end)

\* C14 as amended: discovery makes the target list every integer found at any
\* depth of the listing (a boolean counting as 0 or 1), each once, in ascending
\* order; that is exactly the identifiers present when the listing has one of the
\* three shapes and its objects hold nothing but their identifier; when the call
\* fails, prints no JSON document or holds no integer, and without --discover,
\* the target is the range start..end.
C14_HarvestEveryInteger ==
    pc = "pass1" =>
        IF cli.discover /\ Listed /\ Ints(listing.doc) # {}
        THEN /\ Increasing(netuids)
             /\ SeqSet(netuids) = Ints(listing.doc)
             /\ (Accepted(listing.doc) /\ OnlyIds(listing.doc))
                    => SeqSet(netuids) = IdsPresent(listing.doc)
        ELSE netuids = Range(cli.start, cli.end)

\* an object holding the list of identifiers 2 and 0 gave the target 0, 2
C14_Witness ==
    /\ pc = "pass1"
    /\ cli.discover
    /\ listing.doc = JDict(<<"subnets">>, <<JList(<<JDict(<<"netuid">>, <<JInt(2)>>),
                                                  JDict(<<"netuid">>, <<JInt(0)>>)>>)>>)
    /\ netuids = <<0, 2>>

\* C15: an identifier never has two fetch_one invocations at a time: a pass is
\* given no identifier twice, a fetch_one is started only for a future that is
\* queued and was never started in this pass, and when main() goes from pass 1
\* to pass 2 no fetch_one of pass 1 is queued or running any more.
C15_OneFetchPerIdentifierAtATime ==
    [][/\ Len(netuids') = Cardinality(SeqSet(netuids'))
       /\ \A n \in Ids :
            /\ started'[n] <= 1
            /\ (fut[n] # "running" /\ fut'[n] = "running")
                   => (fut[n] = "pending" /\ started[n] = 0 /\ pc' = pc)
            /\ (fut[n] = "running" /\ pc' = pc) => fut'[n] \in {"running", "finished"}
       /\ pc' # pc =>
            /\ toSubmit = <<>> /\ queue = <<>>
            /\ \A n \in Ids : fut[n] \in {"none", "finished"}
            /\ \A n \in Ids : fut'[n] \in {"none", "finished"}]_vars

\* pass 2 is fetching an identifier whose file pass 1 left part written
C15_Witness ==
    /\ pc = "pass2"
    /\ \E n \in Ids : fut[n] = "running" /\ files[n] = Partial /\ calls[n] = 0

\* C16: the limiter's cursor never goes back; an acquire() with a rate > 0 moves
\* it, in one step, to the later of the cursor and the clock plus one period, so
\* each reservation lies a full period after the one before it (none is lost,
\* none is taken twice) and the caller waits up to the slot it follows; nothing
\* else moves the cursor, and with a rate <= 0 it is never moved.
C16_CursorOnlyAdvances ==
    [][/\ limiter'.next >= limiter.next
       /\ limiter'.qps = limiter.qps
       /\ limiter'.next # limiter.next =>
            /\ limiter.qps > 0
            /\ limiter'.next = Max(limiter.next, now) + Period(limiter.qps)
            /\ limiter'.next >= limiter.next + Period(limiter.qps)
            /\ limiter'.next > now
            /\ \A t \in Threads :
                  (thr'[t].asleep /\ ~thr[t].asleep) => thr'[t].wake >= limiter.next
       /\ (limiter.qps > 0 /\ (admits' # admits \/ thr' # thr) /\ now' = now
             /\ \A t \in Threads : ~(thr[t].asleep /\ ~thr'[t].asleep))
            => limiter'.next # limiter.next]_vars

\* three reservations in a row at one instant: the cursor is three periods ahead
C16_Witness ==
    /\ limiter.qps > 0
    /\ limiter.next = 1 + 3 * Period(limiter.qps)
    /\ now = 1
    /\ Cardinality({t \in Threads : thr[t].asleep}) >= 2

\* C17: main() leaves pass 1 for "done" when pass 1 failed nothing and for pass 2
\* otherwise, and leaves pass 2 for "done" only; a pass is left only when every
\* future of it was collected; pass 2 is given the failed list of pass 1, which
\* holds no identifier pass 1 fetched; run_batch is entered a second time from
\* pass 1 only, so there is no third pass; and at the end pass 2 has run if and
\* only if pass 1 failed something.
C17_TwoPassStateMachine ==
    [][/\ pc' # pc =>
            /\ toSubmit = <<>> /\ collected = SeqSet(netuids)
            /\ pc = "pass1" =>
                  /\ pass1' = [ok |-> ok, failed |-> failed_ids]
                  /\ IF failed_ids = <<>>
                     THEN pc' = "done" /\ pass2' = NoResult
                     ELSE /\ pc' = "pass2"
                          /\ netuids' = failed_ids /\ toSubmit' = failed_ids
                          /\ \A n \in Ids : result[n] => n \notin SeqSet(netuids')
            /\ pc = "pass2" =>
                  /\ pc' = "done"
                  /\ pass2' = [ok |-> ok, failed |-> failed_ids]
                  /\ pass1' = pass1
            /\ pc # "done"
       /\ (netuids' # netuids \/ (collected # {} /\ collected' = {}))
            => (pc = "pass1" /\ pc' = "pass2")
       /\ pc = "pass2" =>
            \A n \in Ids : started'[n] > 0 => n \in SeqSet(pass1.failed)
       /\ pc' = "done" => (pass2' # NoResult <=> pass1'.failed # <<>>)]_vars

\* pass 1 fetched identifier 1 and failed identifier 2; pass 2 is over
C17_Witness ==
    /\ pc = "done"
    /\ pass1 = [ok |-> 1, failed |-> <<2>>]
    /\ pass2 # NoResult
    /\ netuids = <<2>>
    /\ started = [n \in Ids |-> IF n = 2 THEN 1 ELSE 0]

\* an attempt of n is made in this step, and it does not end in success
Attempts(n) == fut[n] = "running" /\ calls'[n] = calls[n] + 1
Fails(n) == Attempts(n) /\ ~(fut'[n] = "finished" /\ result'[n])

\* C18: with the tool present, an attempt that fails (timeout, exception of the
\* call, non-zero exit, empty payload, or a write that raised) before the last
\* one leaves fetch_one running at the next attempt, and fetch_one returns False
\* only from its last attempt; an attempt that damaged the file without saving
\* the payload is such a failure: it ends neither the invocation nor in success,
\* and no exception leaves the worker.
C18_FailuresStayInRetryLoop ==
    [][\A n \in Ids :
          tool = "present" =>
            /\ (Fails(n) /\ attempt[n] < CurArgs.retries) =>
                  /\ fut'[n] = "running"
                  /\ attempt'[n] = attempt[n] + 1
                  /\ sleeps'[n] = sleeps[n] + 1
            /\ (Fails(n) /\ attempt[n] >= CurArgs.retries) =>
                  /\ attempt[n] = CurArgs.retries
                  /\ fut'[n] = "finished" /\ ~result'[n]
            /\ (Attempts(n) /\ files'[n] \notin FullPayloads) => Fails(n)
            /\ (Attempts(n) /\ ~Fails(n)) => files'[n] \in FullPayloads
            /\ Attempts(n) => (raised' = raised /\ pc' = pc)]_vars

\* the write of attempt 1 raised and left the file part written; fetch_one is
\* at attempt 2
C18_Witness ==
    /\ tool = "present"
    /\ fut[1] = "running"
    /\ attempt[1] = 2
    /\ calls[1] = 1
    /\ files[1] = Partial

\* C19: whatever the order in which the futures complete, run_batch counts each
\* collected identifier once, in ok or in failed_ids: the two add up to the
\* futures collected so far and, when the pass returns, to the identifiers it
\* was given; failed_ids names no identifier twice, none outside the input and
\* none whose fetch_one returned True; and the results main() keeps of the two
\* passes add up the same way.
C19_ResultPartitionsInput ==
    /\ ok + Len(failed_ids) = Cardinality(collected)
    /\ collected \subseteq SeqSet(netuids)
    /\ SeqSet(failed_ids) \subseteq collected
    /\ Len(failed_ids) = Cardinality(SeqSet(failed_ids))
    /\ \A n \in collected :
          n \in SeqSet(failed_ids) <=> (n \in raised \/ ~result[n])
    /\ BatchOver => ok + Len(failed_ids) = Len(netuids)
    /\ pc \in {"pass2", "done"} =>
          /\ pass1.ok + Len(pass1.failed) = Len(Range(cli.start, cli.end))
          /\ SeqSet(pass1.failed) \subseteq SeqSet(Range(cli.start, cli.end))
    /\ (pc = "done" /\ pass2 # NoResult) =>
          /\ pass2.ok + Len(pass2.failed) = Len(pass1.failed)
          /\ SeqSet(pass2.failed) \subseteq SeqSet(pass1.failed)

\* pass 1 failed identifier 2 before identifier 1; pass 2 fetched 1 and failed 2
C19_Witness ==
    /\ pc = "pass2"
    /\ BatchOver
    /\ netuids = <<2, 1>>
    /\ ok = 1
    /\ failed_ids = <<2>>

\* C20: under fair scheduling, with every call of the tool ending, the run
\* reaches "done" and stays there, whatever fails: by then pass 1, and pass 2 if
\* it was entered, have returned, and every fetch_one that was submitted has
\* been started, has returned and has been collected.
C20_RunTerminates ==
    <>[](/\ pc = "done"
         /\ pass1 # NoResult
         /\ toSubmit = <<>> /\ queue = <<>>
         /\ \A n \in SeqSet(netuids) : fut[n] = "finished" /\ n \in collected
         /\ \A n \in Ids : fut[n] \in {"none", "finished"})

\* every identifier failed every attempt of both passes, and the run is over
C20_Witness ==
    /\ pc = "done"
    /\ tool = "present"
    /\ args.retries = 2
    /\ pass1.ok = 0
    /\ pass2 # NoResult
    /\ pass2.ok = 0
    /\ Len(pass2.failed) = MaxEnd
    /\ \A n \in Ids : files[n] = NoFile

====
